---- MODULE Spec2Model ----
(***************************************************************************)
(* Supplier dashboard: the CSV ingestion pipeline of                       *)
(* backend/llm_ingestion.py (LLMColumnAnalyzer, DataNormalizer).           *)
(*                                                                         *)
(* A DataFrame is a record [n, col]: n rows, col a function from the       *)
(* column names present to sequences of n cells.  A cell is a record       *)
(* [k, v]: k is the kind of value, v its payload.                          *)
(*   "nan"  missing value (NaN / None / NaT)                               *)
(*   "num"  a finite number, v in fixed point (v / Scale)                  *)
(*   "inf"  the float +infinity (read_csv and to_numeric parse "inf")      *)
(*   "txt"  a string that is neither a number nor a date, v names it       *)
(*   "ts"   a parsed Timestamp at midnight, v the day number               *)
(*   a strptime format of DATE_FORMATS: a date string written in that      *)
(*          format, v the day number; "free": a date string only the       *)
(*          permissive parser reads                                        *)
(***************************************************************************)
EXTENDS Integers, Sequences, FiniteSets, TLC

VARIABLES raw, mappings, target_case, mode, now, pc, pass, result, first

\* The reporting side (backend/mon_analyse.py): the table the analytics are
\* given, what each of them returned, and the series, threshold and answer of
\* a call of detecter_tendance.
VARIABLES table, fenetre, kpis, risques, actions, predictions, serie, seuil, tendance

\* The workspace store (backend/workspace_routes.py): the committed rows of
\* workspace_datasets, Workspace.data_type of each workspace, and the upload
\* requests being served, each in its own database session.
VARIABLES datasets, data_type, requests

upload == <<raw, mappings, target_case, mode, pass, result, first>>

store == <<datasets, data_type, requests>>

report == <<table, fenetre, kpis, risques, actions, predictions, serie, seuil, tendance>>

vars == <<raw, mappings, target_case, mode, now, pc, pass, result, first,
          table, fenetre, kpis, risques, actions, predictions, serie, seuil, tendance,
          datasets, data_type, requests>>

\* ---------------------------------------------------------------- bounds
MaxRows == 2

\* ------------------------------------------------------------ fixed point
\* Numbers are kept in units of 1/Scale, so that 0.05 and 0.9905 are exact.
Scale == 100 * 100
One == Scale
Hundred == 100 * Scale

\* ------------------------------------------------------------------ cells
NaN == [k |-> "nan", v |-> 0]
Inf == [k |-> "inf", v |-> 0]
Num(x) == [k |-> "num", v |-> x]
Ts(d) == [k |-> "ts", v |-> d]
DateStr(fmt, d) == [k |-> fmt, v |-> d]

\* The strings of the model in Python's order ("" < "Alpha" < "Beta" < "nan"
\* < "text"); a "txt" cell holds the position of its string.
Strings == << "", "Alpha", "Beta", "nan", "text" >>
StrId(s) == CHOOSE i \in DOMAIN Strings : Strings[i] = s
Txt(s) == [k |-> "txt", v |-> StrId(s)]

isna(c) == c.k = "nan"
notna(c) == ~isna(c)

\* pd.to_numeric(errors='coerce') on one cell: strings that are not numbers
\* become NaN.
to_numeric(c) == IF c.k \in {"num", "inf"} THEN c ELSE NaN

fillna(c, d) == IF isna(c) THEN d ELSE c

\* x < y, x > y on numeric cells (NaN compares false, as in IEEE).
NumLt(x, y) ==
    /\ x.k \in {"num", "inf"} /\ y.k \in {"num", "inf"}
    /\ \/ x.k = "num" /\ y.k = "inf"
       \/ x.k = "num" /\ y.k = "num" /\ x.v < y.v
NumGt(x, y) == NumLt(y, x)

\* Series.clip(lo, hi) on one cell.
clip(x, lo, hi) ==
    IF x.k = "inf" THEN Num(hi)
    ELSE IF x.k = "num" THEN (IF x.v < lo THEN Num(lo) ELSE IF x.v > hi THEN Num(hi) ELSE x)
    ELSE x

\* Python's max(0, x).
max0(x) == IF NumGt(x, Num(0)) THEN x ELSE Num(0)

\* x / 100 on one cell.  Every number of the model is a multiple of 0.01.
div100(x) == IF x.k = "num" THEN Num(x.v \div 100) ELSE x

\* Series.max(): the largest non-NaN value, NaN for an empty series.
SeriesMax(s) ==
    LET vals == {s[i] : i \in DOMAIN s} \ {NaN}
    IN  IF vals = {} THEN NaN
        ELSE CHOOSE m \in vals : \A x \in vals : ~NumGt(x, m)

Map(s, F(_)) == [i \in DOMAIN s |-> F(s[i])]
Count(s, P(_)) == Cardinality({i \in DOMAIN s : P(s[i])})

\* ------------------------------------------------------------- DataFrames
EmptyDF == [n |-> 0, col |-> [x \in {} |-> <<>>]]
columns(df) == DOMAIN df.col
HasCol(df, c) == c \in columns(df)

\* df[c] = series.  The first column of an empty frame brings its index.
SetCol(df, c, s) ==
    [n |-> IF columns(df) = {} THEN Len(s) ELSE df.n,
     col |-> [x \in columns(df) \cup {c} |-> IF x = c THEN s ELSE df.col[x]]]

\* df[c] = scalar: one copy per existing row (none in an empty frame).
SetScalar(df, c, cell) ==
    [n |-> df.n,
     col |-> [x \in columns(df) \cup {c} |->
                IF x = c THEN [i \in 1..df.n |-> cell] ELSE df.col[x]]]

Row(df, i) == [c \in columns(df) |-> df.col[c][i]]

\* -------------------------------------------------------------- warnings
\* A ValidationWarning: code names the message, detail is the text the
\* message carries (the exception's str for "normalization_failed").
Warn(sev, code, column, rows) ==
    [severity |-> sev, code |-> code, column |-> column, row_count |-> rows, detail |-> ""]
FailureWarn(exc) ==
    [severity |-> "error", code |-> "normalization_failed", column |-> "", row_count |-> 0,
     detail |-> exc]

\* The state threaded through the steps of normalize: the frame being built,
\* self.warnings, and the exception raised so far ("" when none).
Step(df, w, exc) == [df |-> df, warnings |-> w, exc |-> exc]

\* ------------------------------------------------------ 1. apply mappings
RECURSIVE apply_mappings_from(_, _, _, _)
apply_mappings_from(df, maps, i, st) ==
    IF i > Len(maps) THEN st
    ELSE LET m == maps[i]
         IN  IF m.target_role = "ignore"
             THEN apply_mappings_from(df, maps, i + 1, st)
             ELSE IF ~HasCol(df, m.source_column)
             THEN apply_mappings_from(df, maps, i + 1,
                      Step(st.df,
                           Append(st.warnings,
                                  Warn("warning", "source_not_found", m.source_column, 0)),
                           st.exc))
             ELSE apply_mappings_from(df, maps, i + 1,
                      Step(SetCol(st.df, m.target_role, df.col[m.source_column]),
                           st.warnings, st.exc))

apply_mappings(df, maps) == apply_mappings_from(df, maps, 1, Step(EmptyDF, <<>>, ""))

\* ---------------------------------------------------- 2. normalize dates
DATE_FORMATS ==
    << "%Y-%m-%d", "%d/%m/%Y", "%m/%d/%Y", "%Y/%m/%d", "%d-%m-%Y",
       "%d.%m.%Y", "%Y%m%d", "%B %d, %Y", "%d %B %Y" >>

\* pd.to_datetime(format=fmt, errors='coerce') on one cell: a string written
\* in fmt parses, a datetime passes through, anything else becomes NaT.
parse_with(fmt, c) ==
    IF c.k = "ts" THEN c
    ELSE IF c.k = fmt THEN Ts(c.v)
    ELSE NaN

\* pd.to_datetime(errors='coerce') without a format: every date string.
parse_any(c) ==
    IF c.k = "ts" THEN c
    ELSE IF c.k = "free" \/ \E j \in DOMAIN DATE_FORMATS : DATE_FORMATS[j] = c.k THEN Ts(c.v)
    ELSE NaN

\* The loop over DATE_FORMATS: the result of the first format that parses
\* at least 80% of the non-null values, or of the last format tried.
RECURSIVE try_formats(_, _, _)
try_formats(s, original_count, j) ==
    LET parsed == Map(s, LAMBDA c : parse_with(DATE_FORMATS[j], c))
        valid_count == Count(parsed, notna)
    IN  IF valid_count * 10 >= original_count * 8 \/ j = Len(DATE_FORMATS)
        THEN parsed
        ELSE try_formats(s, original_count, j + 1)

parse_date_column(s) ==
    LET original_count == Count(s, notna)
        parsed == try_formats(s, original_count, 1)
    IN  IF Count(parsed, notna) * 2 < original_count
        THEN Map(s, parse_any)
        ELSE parsed

normalize_date_column(st, c) ==
    IF ~HasCol(st.df, c) THEN st
    ELSE LET parsed == parse_date_column(st.df.col[c])
             invalid_count == Count(parsed, isna)
         IN  Step(SetCol(st.df, c, parsed),
                  IF invalid_count > 0
                  THEN Append(st.warnings, Warn("warning", "invalid_dates", c, invalid_count))
                  ELSE st.warnings,
                  st.exc)

normalize_dates(st) ==
    normalize_date_column(
        normalize_date_column(
            normalize_date_column(st, "date_promised"), "date_delivered"), "order_date")

\* ------------------------------------------------------ 3. compute delay
\* Mutant: the difference is taken the wrong way round.
days_between_reversed(promised, delivered) ==
    IF promised.k = "ts" /\ delivered.k = "ts"
    THEN Num((promised.v - delivered.v) * Scale)
    ELSE NaN

\* (date_delivered - date_promised).dt.days on one row: NaT when a date is.
days_between(promised, delivered) ==
    IF promised.k = "ts" /\ delivered.k = "ts"
    THEN Num((delivered.v - promised.v) * Scale)
    ELSE NaN

\* lambda x: max(0, x) if pd.notna(x) else 0
delay_from_days(x) == IF notna(x) THEN max0(x) ELSE Num(0)

\* Mutant: negatives of an existing delay column are kept.
validate_delay_unclamped(c) == fillna(to_numeric(c), Num(0))

\* The existing delay column: coerced, NaN filled with 0, negatives set to 0.
validate_delay(c) == max0(fillna(to_numeric(c), Num(0)))

\* "Create dummy dates if needed for compatibility": both date columns are
\* (re)written whenever date_promised is absent.
default_dates(df, today) ==
    IF HasCol(df, "date_promised") THEN df
    ELSE IF HasCol(df, "order_date")
    THEN SetCol(SetCol(df, "date_promised", df.col["order_date"]),
                "date_delivered", df.col["order_date"])
    ELSE SetScalar(SetScalar(df, "date_promised", Ts(today)), "date_delivered", Ts(today))

\* Mutant: the two dates are looked at before the existing delay column.
compute_delay_dates_first(st, case, today) ==
    LET df == st.df
    IN  IF HasCol(df, "date_promised") /\ HasCol(df, "date_delivered")
        THEN Step(SetCol(df, "delay",
                         [i \in 1..df.n |->
                             delay_from_days(days_between(df.col["date_promised"][i],
                                                          df.col["date_delivered"][i]))]),
                  st.warnings, st.exc)
        ELSE IF HasCol(df, "delay")
        THEN Step(SetCol(df, "delay", Map(df.col["delay"], validate_delay)),
                  st.warnings, st.exc)
        ELSE Step(default_dates(IF case = "defects_only"
                                THEN SetScalar(df, "delay", Num(0)) ELSE df, today),
                  st.warnings, st.exc)

compute_delay(st, case, today) ==
    LET df == st.df
    IN  IF HasCol(df, "delay")
        THEN Step(SetCol(df, "delay", Map(df.col["delay"], validate_delay)),
                  st.warnings, st.exc)
        ELSE LET delayed ==
                   IF HasCol(df, "date_promised") /\ HasCol(df, "date_delivered")
                   THEN SetCol(df, "delay",
                               [i \in 1..df.n |->
                                   delay_from_days(days_between(df.col["date_promised"][i],
                                                                df.col["date_delivered"][i]))])
                   ELSE IF case = "defects_only"
                   THEN SetScalar(df, "delay", Num(0))
                   ELSE df
             IN  Step(default_dates(delayed, today), st.warnings, st.exc)

\* -------------------------------------------------- 4. normalize defects
\* Mutant: a column whose largest value is exactly 1 counts as percentages.
is_percent_scale_inclusive(s) ==
    NumGt(SeriesMax(s), Num(One)) \/ SeriesMax(s) = Num(One)

\* quality.max() > 1 and defects.max() > 1
is_percent_scale(s) == NumGt(SeriesMax(s), Num(One))

quality_to_defects(s) ==
    LET quality == Map(s, LAMBDA c : fillna(to_numeric(c), Num(Hundred)))
    IN  IF is_percent_scale(quality)
        THEN Map(quality, LAMBDA q : div100(Num(Hundred - clip(q, 0, Hundred).v)))
        ELSE Map(quality, LAMBDA q : Num(One - clip(q, 0, One).v))

\* Mutant: each value is scaled on its own, whatever the rest of the column.
rescale_defects_per_row(s) ==
    LET defects == Map(s, LAMBDA c : fillna(to_numeric(c), Num(0)))
    IN  Map(defects, LAMBDA d : IF NumGt(d, Num(One)) THEN div100(d) ELSE clip(d, 0, One))

rescale_defects(s) ==
    LET defects == Map(s, LAMBDA c : fillna(to_numeric(c), Num(0)))
    IN  IF is_percent_scale(defects)
        THEN Map(defects, div100)
        ELSE Map(defects, LAMBDA d : clip(d, 0, One))

out_of_range(d) == NumLt(d, Num(0)) \/ NumGt(d, Num(One))

\* Mutant: the final clamp of defects is left out.
clip_defects_skipped(st) == st

\* "Final validation: ensure defects in [0, 1]"
clip_defects(st) ==
    LET invalid_defects == Count(st.df.col["defects"], out_of_range)
    IN  IF invalid_defects > 0
        THEN Step(SetCol(st.df, "defects",
                         Map(st.df.col["defects"], LAMBDA d : clip(d, 0, One))),
                  Append(st.warnings,
                         Warn("warning", "defects_clipped", "defects", invalid_defects)),
                  st.exc)
        ELSE st

normalize_defects(st, case) ==
    LET df == st.df
        converted ==
            IF HasCol(df, "quality_score") /\ ~HasCol(df, "defects")
            THEN SetCol(df, "defects", quality_to_defects(df.col["quality_score"]))
            ELSE IF HasCol(df, "defects")
            THEN SetCol(df, "defects", rescale_defects(df.col["defects"]))
            ELSE IF case = "delay_only"
            THEN SetScalar(df, "defects", Num(0))
            ELSE df
        ensured ==
            IF HasCol(converted, "defects") THEN converted
            ELSE SetScalar(converted, "defects", Num(0))
    IN  clip_defects(Step(ensured, st.warnings, st.exc))

\* ---------------------------------------------------- 5. clean suppliers
\* astype(str).str.strip(): NaN becomes the string "nan"; the strings of the
\* model are already trimmed ("" stands for any blank string).
supplier_str(c) == IF isna(c) THEN Txt("nan") ELSE c

is_empty_supplier(c) == c = Txt("") \/ isna(c)

clean_suppliers(st) ==
    IF ~HasCol(st.df, "supplier")
    THEN Step(st.df,
              Append(st.warnings, Warn("error", "no_supplier_column", "supplier", 0)),
              st.exc)
    ELSE LET cleaned == Map(st.df.col["supplier"], supplier_str)
             empty_count == Count(cleaned, is_empty_supplier)
         IN  Step(SetCol(st.df, "supplier", cleaned),
                  IF empty_count > 0
                  THEN Append(st.warnings,
                              Warn("warning", "empty_suppliers", "supplier", empty_count))
                  ELSE st.warnings,
                  st.exc)

\* ------------------------------------------------------- 6. validate data
supplier_missing(df) == ~HasCol(df, "supplier")
negative_delays(df) ==
    IF HasCol(df, "delay") THEN Count(df.col["delay"], LAMBDA d : NumLt(d, Num(0))) ELSE 0
invalid_defects(df) ==
    IF HasCol(df, "defects") THEN Count(df.col["defects"], out_of_range) ELSE 0
no_rows(df) == df.n = 0

\* Mutant: validation stops at the first failure it finds.
validation_errors_first_only(df) ==
    IF supplier_missing(df) THEN << Warn("error", "missing_supplier", "", 0) >>
    ELSE IF negative_delays(df) > 0
    THEN << Warn("error", "negative_delay", "delay", negative_delays(df)) >>
    ELSE IF invalid_defects(df) > 0
    THEN << Warn("error", "defects_out_of_range", "defects", invalid_defects(df)) >>
    ELSE IF no_rows(df) THEN << Warn("error", "no_rows", "", 0) >>
    ELSE <<>>

validation_errors(df) ==
    (IF supplier_missing(df) THEN << Warn("error", "missing_supplier", "", 0) >> ELSE <<>>)
    \o (IF negative_delays(df) > 0
        THEN << Warn("error", "negative_delay", "delay", negative_delays(df)) >> ELSE <<>>)
    \o (IF invalid_defects(df) > 0
        THEN << Warn("error", "defects_out_of_range", "defects", invalid_defects(df)) >>
        ELSE <<>>)
    \o (IF no_rows(df) THEN << Warn("error", "no_rows", "", 0) >> ELSE <<>>)

validate_data(df) ==
    ~supplier_missing(df) /\ negative_delays(df) = 0 /\ invalid_defects(df) = 0 /\ ~no_rows(df)

\* ----------------------------------------------------------- 7. sort data
\* Ascending order of one sort key; NaN and NaT sort last.
KeyLess(a, b) ==
    IF isna(a) THEN FALSE
    ELSE IF isna(b) THEN TRUE
    ELSE a.v < b.v

sort_cols(df) ==
    << "supplier" >>
    \o (IF HasCol(df, "date_promised") THEN << "date_promised" >>
        ELSE IF HasCol(df, "order_date") THEN << "order_date" >>
        ELSE <<>>)

\* Row i sorts strictly before row j on the keys from position p on.
RECURSIVE RowLess(_, _, _, _, _)
RowLess(df, keys, p, i, j) ==
    IF p > Len(keys) THEN FALSE
    ELSE LET a == df.col[keys[p]][i]
             b == df.col[keys[p]][j]
         IN  \/ KeyLess(a, b)
             \/ ~KeyLess(b, a) /\ RowLess(df, keys, p + 1, i, j)

\* df.sort_values(sort_cols).reset_index(drop=True): the order of the keys,
\* rows with equal keys staying in their order.
sort_order(df, keys) ==
    CHOOSE p \in [1..df.n -> 1..df.n] :
        /\ \A i, j \in 1..df.n : i # j => p[i] # p[j]
        /\ \A i, j \in 1..df.n :
              i < j => \/ RowLess(df, keys, 1, p[i], p[j])
                       \/ ~RowLess(df, keys, 1, p[j], p[i]) /\ p[i] < p[j]

sort_data(df) ==
    LET p == sort_order(df, sort_cols(df))
    IN  [n |-> df.n, col |-> [c \in columns(df) |-> [i \in 1..df.n |-> df.col[c][p[i]]]]]

\* ------------------------------------------------------------ 8. summary
\* int(df['delay'].max()) is the one conversion of _generate_summary that can
\* fail: the max of no rows is NaN, and an infinite delay has no int.
generate_summary_error(df) ==
    IF ~HasCol(df, "delay") THEN ""
    ELSE LET m == SeriesMax(df.col["delay"])
         IN  IF isna(m) THEN "ValueError"
             ELSE IF m.k = "inf" THEN "OverflowError"
             ELSE ""

\* -------------------------------------------------------------- normalize
\* ColumnMapping(**m) needs every field of the dataclass without a default.
column_mappings_error(maps) ==
    IF \E i \in DOMAIN maps : ~maps[i].descriptive THEN "TypeError" ELSE ""

NoResult ==
    [raised |-> FALSE, success |-> FALSE, has_df |-> FALSE, dataframe |-> EmptyDF,
     warnings |-> <<>>, validated |-> EmptyDF]

normalize(df, maps, case, today) ==
    LET mapped == apply_mappings(df, maps)
        dated == normalize_dates(mapped)
        delayed == compute_delay(dated, case, today)
        defected == normalize_defects(delayed, case)
        cleaned == clean_suppliers(defected)
        is_valid == validate_data(cleaned.df)
        checked == cleaned.warnings \o validation_errors(cleaned.df)
        sorted == sort_data(cleaned.df)
        exc == IF supplier_missing(cleaned.df) THEN "KeyError"
               ELSE IF generate_summary_error(sorted) # ""
               THEN generate_summary_error(sorted)
               ELSE column_mappings_error(maps)
    IN  IF exc = ""
        THEN [raised |-> FALSE, success |-> is_valid, has_df |-> TRUE,
              dataframe |-> sorted, warnings |-> checked,
              validated |-> cleaned.df]
        ELSE IF column_mappings_error(maps) = ""
        THEN [raised |-> FALSE, success |-> FALSE, has_df |-> FALSE,
              dataframe |-> EmptyDF, warnings |-> Append(checked, FailureWarn(exc)),
              validated |-> cleaned.df]
        ELSE [raised |-> TRUE, success |-> FALSE, has_df |-> FALSE,
              dataframe |-> EmptyDF, warnings |-> Append(checked, FailureWarn(exc)),
              validated |-> cleaned.df]

\* ------------------------------------------------------ column analyzer
\* The role categories whose name patterns re.search finds in a column name
\* (SUPPLIER_PATTERNS .. QUALITY_PATTERNS), for the column names of the model.
NameMatches(name) ==
    CASE name = "fournisseur" -> {"supplier"}
      [] name = "date_promised" -> {"date_promised"}
      [] name = "date_delivered" -> {"date_delivered"}
      [] name = "order_date" -> {"order_date"}
      [] name = "retard" -> {"delay"}
      [] name = "taux_defaut" -> {"defects"}
      [] name = "qualite" -> {"quality_score"}
      [] name = "defective_items" -> {"defects"}
      [] name = "total_items" -> {}
      [] name = "supplier_score" -> {"supplier", "quality_score"}
      [] OTHER -> {}

\* patterns_to_check: the categories in their order, with the expected types.
patterns_to_check ==
    << [role |-> "supplier", types |-> {"string"}],
       [role |-> "date_promised", types |-> {"date"}],
       [role |-> "date_delivered", types |-> {"date"}],
       [role |-> "order_date", types |-> {"date"}],
       [role |-> "delay", types |-> {"integer", "float"}],
       [role |-> "defects", types |-> {"integer", "float"}],
       [role |-> "quality_score", types |-> {"integer", "float"}] >>

is_date_string(c) == c.k = "free" \/ \E j \in DOMAIN DATE_FORMATS : DATE_FORMATS[j] = c.k

\* _detect_column_type: numeric when more than 80% of the cells are numbers,
\* date when every non-null cell parses as a date, else string.
detect_column_type(s) ==
    LET numeric == Map(s, to_numeric)
        present == {s[i] : i \in DOMAIN s} \ {NaN}
    IN  IF Len(s) > 0 /\ Count(numeric, notna) * 10 > Len(s) * 8
        THEN IF \A i \in DOMAIN s : isna(numeric[i]) \/ (numeric[i].k = "num" /\ numeric[i].v % Scale = 0)
             THEN "integer" ELSE "float"
        ELSE IF \/ \E f \in {"%Y-%m-%d", "%d/%m/%Y", "%m/%d/%Y", "%Y/%m/%d"} :
                      \A c \in present : c.k = f
                \/ \A c \in present : is_date_string(c)
                \/ \A c \in present : c.k \in {"num", "inf"}
        THEN "date"
        ELSE "string"

\* Confidences are kept in tenths: 9 is 0.9.
infer_from_content(s, type) ==
    LET samples == {s[i] : i \in DOMAIN s} \ {NaN}
        all_in(lo, hi) == \A c \in samples : c.k = "num" /\ lo <= c.v /\ c.v <= hi
    IN  IF type = "string" THEN [role |-> "supplier", confidence |-> 4]
        ELSE IF type = "date" THEN [role |-> "ignore", confidence |-> 3]
        ELSE IF \E c \in samples : c.k \notin {"num", "inf"}
        THEN [role |-> "ignore", confidence |-> 2]
        ELSE IF all_in(0, One) THEN [role |-> "defects", confidence |-> 5]
        ELSE IF all_in(0, Hundred) THEN [role |-> "quality_score", confidence |-> 4]
        ELSE IF \A c \in samples : c.k = "inf" \/ c.v >= 0 THEN [role |-> "delay", confidence |-> 3]
        ELSE [role |-> "ignore", confidence |-> 2]

\* The loop over patterns_to_check: a category replaces the best match so
\* far only with a strictly greater confidence.
RECURSIVE best_pattern(_, _, _, _)
best_pattern(name, type, j, best) ==
    IF j > Len(patterns_to_check) THEN best
    ELSE LET cat == patterns_to_check[j]
             confidence == IF type \in cat.types THEN 9 ELSE 6
         IN  IF cat.role \in NameMatches(name) /\ confidence > best.confidence
             THEN best_pattern(name, type, j + 1, [role |-> cat.role, confidence |-> confidence])
             ELSE best_pattern(name, type, j + 1, best)

suggest_mapping(name, s) ==
    LET type == detect_column_type(s)
        best == best_pattern(name, type, 1, [role |-> "none", confidence |-> 0])
        chosen == IF best.role = "none" THEN infer_from_content(s, type) ELSE best
    IN  [source_column |-> name, target_role |-> chosen.role,
         confidence |-> chosen.confidence, descriptive |-> TRUE]

detect_case(maps) ==
    LET roles == {maps[i].target_role : i \in {j \in DOMAIN maps : maps[j].confidence > 5}}
        has_dates == ("date_promised" \in roles /\ "date_delivered" \in roles) \/ "delay" \in roles
        has_defects == "defects" \in roles \/ "quality_score" \in roles
    IN  IF has_dates /\ has_defects THEN "mixed"
        ELSE IF has_dates THEN "delay_only"
        ELSE IF has_defects THEN "defects_only"
        ELSE "unknown"

\* The columns of an uploaded file, in the order of its header.
ColumnOrder ==
    << "fournisseur", "date_promised", "date_delivered", "order_date", "retard",
       "taux_defaut", "qualite", "defective_items", "total_items", "supplier_score" >>

header(df) == SelectSeq(ColumnOrder, LAMBDA c : HasCol(df, c))

analyze_csv(df) ==
    LET maps == [i \in DOMAIN header(df) |-> suggest_mapping(header(df)[i], df.col[header(df)[i]])]
    IN  [mappings |-> maps, detected_case |-> detect_case(maps)]

\* ----------------------------------------------------------------- inputs
Cases == {"delay_only", "defects_only", "mixed"}

\* The day Timestamp.now() falls on.
Today == 9

\* The values a cell of each source column is drawn from.
CellsOf(name) ==
    CASE name = "fournisseur" -> {Txt("Alpha"), Txt(""), NaN}
      [] name = "date_promised" ->
            {DateStr("%Y-%m-%d", 1), DateStr("%Y-%m-%d", 5), DateStr("%d %B %Y", 2)}
      [] name = "date_delivered" -> {DateStr("%Y-%m-%d", 3), NaN}
      [] name = "order_date" -> {DateStr("%Y-%m-%d", 2), NaN}
      [] name = "retard" -> {Num(-2 * Scale), Num(3 * Scale), Inf, Txt("text"), NaN}
      [] name = "taux_defaut" ->
            {Num(-Scale \div 2), Num(Scale \div 2), Num(5 * Scale), Num(150 * Scale), NaN}
      [] name = "qualite" ->
            {Num(95 * (Scale \div 100)), Num(95 * Scale), Num(120 * Scale), NaN}
      [] name = "defective_items" -> {Num(Scale), Num(5 * Scale)}
      [] name = "total_items" -> {Num(100 * Scale), Num(200 * Scale)}
      [] name = "supplier_score" -> {Num(95 * Scale), Txt("text")}

\* The column sets of the uploaded files.
Layouts ==
    { {"fournisseur", "date_promised", "date_delivered"},
      {"fournisseur", "retard"},
      {"fournisseur", "taux_defaut"},
      {"fournisseur", "qualite"},
      {"taux_defaut"},
      {"fournisseur", "defective_items", "total_items"},
      {"fournisseur", "date_promised", "date_delivered", "taux_defaut"},
      {"fournisseur", "date_promised", "date_delivered", "retard"},
      {"fournisseur", "supplier_score"},
      {"fournisseur", "date_delivered"} }

\* Files of more than three columns are taken with at most one row.
RowsOf(layout) == IF Cardinality(layout) > 3 THEN 1 ELSE MaxRows

Series(name, n) == [1..n -> CellsOf(name)]

\* Every frame of n rows over the columns cols[j..]: one series per column.
RECURSIVE ColumnsFrom(_, _, _)
ColumnsFrom(cols, n, j) ==
    IF j > Len(cols) THEN {[x \in {} |-> <<>>]}
    ELSE {[x \in DOMAIN f \cup {cols[j]} |-> IF x = cols[j] THEN s ELSE f[x]] :
             f \in ColumnsFrom(cols, n, j + 1), s \in Series(cols[j], n)}

Frames(layout, n) ==
    {[n |-> n, col |-> f] :
        f \in ColumnsFrom(SelectSeq(ColumnOrder, LAMBDA c : c \in layout), n, 1)}

\* The role a reviewer approves for each source column.
ApprovedRole(name) ==
    CASE name = "fournisseur" -> "supplier"
      [] name = "retard" -> "delay"
      [] name = "taux_defaut" -> "defects"
      [] name = "qualite" -> "quality_score"
      [] name = "defective_items" -> "defects"
      [] name = "total_items" -> "ignore"
      [] name = "supplier_score" -> "quality_score"
      [] OTHER -> name

\* Approved mappings as the route receives them: with the descriptive fields
\* of ColumnMapping (reasoning, sample_values, detected_type) or, as in
\* ColumnMappingRequest, without them.
approved_mappings(df, descriptive) ==
    [i \in DOMAIN header(df) |->
        [source_column |-> header(df)[i], target_role |-> ApprovedRole(header(df)[i]),
         confidence |-> 10, descriptive |-> descriptive]]

\* Each canonical column of a normalized frame mapped to its own role.
Canonical == << "supplier", "date_promised", "date_delivered", "delay", "defects" >>

identity_mappings ==
    [i \in DOMAIN Canonical |->
        [source_column |-> Canonical[i], target_role |-> Canonical[i],
         confidence |-> 10, descriptive |-> TRUE]]

\* The caller's frame after a call.  normalize works on the frame that
\* _apply_mappings builds from copies of the mapped columns; the analytics
\* work on selections (df[mask], sort_values) of the frame they are given.
\* Neither assigns into the frame of the caller.
frame_after_normalize(df, result_df) == df

\* Mutant: the sorted selection is written back over the caller's frame.
frame_sorted_in_place(df, df_s) == df_s

frame_after_analytics(df, df_s) == df

\* -------------------------------------------------------- workspace store
MaxDatasets == 3

Workspaces == {"W1", "W2"}
Requests == {1, 2}
Routes == {"upload_dataset", "apply_llm_mappings", "smart_upload_with_llm"}

Idle ==
    [pc |-> "idle", route |-> "", workspace_id |-> "", success |-> FALSE,
     target_case |-> "", matched |-> {}, written |-> {}]

\* No workspace has a dataset and no upload is being served.
NoStore ==
    /\ datasets = <<>>
    /\ data_type = [w \in Workspaces |-> "CASE_A"]
    /\ requests = [r \in Requests |-> Idle]

\* ------------------------------------------------------------------ state
\* No report is being computed.
NoReport ==
    /\ table = EmptyDF
    /\ fenetre = 0
    /\ kpis = <<>>
    /\ risques = <<>>
    /\ actions = <<>>
    /\ predictions = <<>>
    /\ serie = <<>>
    /\ seuil = 0
    /\ tendance = ""

Init ==
    /\ \E layout \in Layouts : \E n \in 0..RowsOf(layout) : raw \in Frames(layout, n)
    /\ mode \in {"approved", "analyzed"}
    /\ \/ /\ mode = "approved"
          /\ \E d \in BOOLEAN : mappings = approved_mappings(raw, d)
          /\ target_case \in Cases
          /\ pc = "mapped"
       \/ /\ mode = "analyzed"
          /\ mappings = <<>>
          /\ target_case = "unknown"
          /\ pc = "uploaded"
    /\ now = Today
    /\ pass = 1
    /\ result = NoResult
    /\ first = NoResult
    /\ NoReport
    /\ NoStore

\* analyze_csv_for_mapping: the suggested mappings and the detected case,
\* handed unchanged to apply_mappings_and_normalize.
Analyze ==
    /\ pc = "uploaded"
    /\ mappings' = analyze_csv(raw).mappings
    /\ target_case' = analyze_csv(raw).detected_case
    /\ pc' = "mapped"
    /\ UNCHANGED <<raw, mode, now, pass, result, first>>
    /\ UNCHANGED report
    /\ UNCHANGED store

\* apply_mappings_and_normalize: one call of DataNormalizer.normalize, which
\* returns an IngestionResult or lets an exception out.
Normalize ==
    /\ pc = "mapped"
    /\ result' = normalize(raw, mappings, target_case, now)
    /\ raw' = frame_after_normalize(raw, result'.dataframe)
    /\ pc' = IF result'.raised THEN "raised" ELSE "returned"
    /\ UNCHANGED <<mappings, target_case, mode, now, pass, first>>
    /\ UNCHANGED report
    /\ UNCHANGED store

\* The frame of a successful result is normalized again under the identity
\* mappings and the same target case.
Renormalize ==
    /\ pc = "returned"
    /\ pass = 1
    /\ result.success
    /\ raw' = result.dataframe
    /\ mappings' = identity_mappings
    /\ first' = result
    /\ pass' = 2
    /\ pc' = "mapped"
    /\ result' = NoResult
    /\ UNCHANGED <<target_case, mode, now>>
    /\ UNCHANGED report
    /\ UNCHANGED store

\* The caller makes the same call again, with the same table, mappings and
\* target case, a day later.
Repeat ==
    /\ pc = "returned"
    /\ pass = 1
    /\ first' = result
    /\ pass' = 3
    /\ pc' = "mapped"
    /\ result' = NoResult
    /\ now' = now + 1
    /\ UNCHANGED <<raw, mappings, target_case, mode>>
    /\ UNCHANGED report
    /\ UNCHANGED store

Next == Analyze \/ Normalize \/ Renormalize \/ Repeat

Spec == Init /\ [][Next]_vars

\* =========================================================== mon_analyse
\* Arithmetic is exact.  A delay or a defect rate is a "num" cell in units of
\* 1/Scale; a mean, a slope or a score is a numerator over the denominator
\* named next to it; a rounded output is an integer count of its last digit
\* (score_risque 25.0 is 250 tenths).
Min(a, b) == IF a < b THEN a ELSE b
Max(a, b) == IF a > b THEN a ELSE b

RECURSIVE SumFrom(_, _)
SumFrom(s, i) == IF i > Len(s) THEN 0 ELSE s[i] + SumFrom(s, i + 1)

Sum(s) == SumFrom(s, 1)

Values(s) == [i \in DOMAIN s |-> s[i].v]

\* round(num / den, 0) for num >= 0 and den > 0: to the nearest integer, a
\* half going to the even neighbour.
RoundDiv(num, den) ==
    LET q == num \div den
        r == num % den
    IN  IF 2 * r < den THEN q
        ELSE IF 2 * r > den THEN q + 1
        ELSE IF q % 2 = 0 THEN q
        ELSE q + 1

\* The positions 1..n of a series that satisfy P, in order.
Positions(n, P(_)) == SelectSeq([i \in 1..n |-> i], P)

\* df[mask] and df.iloc[idx]: a new frame holding the rows idx of df.
take(df, idx) ==
    [n |-> Len(idx),
     col |-> [c \in columns(df) |-> [i \in 1..Len(idx) |-> df.col[c][idx[i]]]]]

\* df[df["supplier"] == supplier]
rows_of_supplier(df, supplier) ==
    take(df, Positions(df.n, LAMBDA i : df.col["supplier"][i] = supplier))

\* Series.unique(): the values in the order in which they are first met.
unique(s) ==
    LET firsts == Positions(Len(s), LAMBDA i : \A j \in 1..(i - 1) : s[j] # s[i])
    IN  [k \in DOMAIN firsts |-> s[firsts[k]]]

\* seuil: float = 0.01
DefaultSeuil == Scale \div 100

\* np.polyfit(x, y, 1)[0] over the non-NaN points, x being the position in
\* the series counted from 0: the least-squares slope num / den, in 1/Scale.
pente(s) ==
    LET valid == Positions(Len(s), LAMBDA i : notna(s[i]))
        m == Len(valid)
        x == [k \in 1..m |-> valid[k] - 1]
        y == [k \in 1..m |-> s[valid[k]].v]
        Sx == Sum(x)
        Sy == Sum(y)
        Sxy == Sum([k \in 1..m |-> x[k] * y[k]])
        Sxx == Sum([k \in 1..m |-> x[k] * x[k]])
    IN  [points |-> m, num |-> m * Sxy - Sx * Sy, den |-> m * Sxx - Sx * Sx]

\* Mutant: a slope exactly at the threshold already counts as a trend.
detecter_tendance_inclusive(s, threshold) ==
    IF Len(s) < 2 \/ pente(s).points < 2 THEN "stable"
    ELSE IF pente(s).num >= threshold * pente(s).den THEN "hausse"
    ELSE IF pente(s).num <= -threshold * pente(s).den THEN "baisse"
    ELSE "stable"

detecter_tendance(s, threshold) ==
    IF Len(s) < 2 THEN "stable"
    ELSE IF pente(s).points < 2 THEN "stable"
    ELSE IF pente(s).num > threshold * pente(s).den THEN "hausse"
    ELSE IF pente(s).num < -threshold * pente(s).den THEN "baisse"
    ELSE "stable"

\* ---------------------------------------------------------- kpis globaux
\* Percentages and the mean delay are rounded to 2 decimals and kept in
\* hundredths.
kpis_of_orders(df) ==
    LET late == Positions(df.n, LAMBDA i : NumGt(df.col["delay"][i], Num(0)))
        perfect == Positions(df.n, LAMBDA i : /\ df.col["delay"][i] = Num(0)
                                              /\ df.col["defects"][i] = Num(0))
        df_retards == take(df, late)
    IN  [taux_retard |-> RoundDiv(Len(late) * 100 * 100, df.n),
         taux_defaut |->
             RoundDiv(Sum(Values(df.col["defects"])) * 100 * 100, df.n * Scale),
         retard_moyen |->
             IF df_retards.n = 0 THEN 0
             ELSE RoundDiv(Sum(Values(df_retards.col["delay"])) * 100,
                           df_retards.n * Scale),
         nb_fournisseurs |-> Len(unique(df.col["supplier"])),
         nb_commandes |-> df.n,
         defaut_max |-> RoundDiv(SeriesMax(df.col["defects"]).v * 100 * 100, Scale),
         retard_max |-> SeriesMax(df.col["delay"]).v \div Scale,
         commandes_parfaites |-> Len(perfect),
         taux_conformite |-> RoundDiv(Len(perfect) * 100 * 100, df.n)]

\* Mutant: an empty table gets the two rates only.
calculer_kpis_globaux_sparse(df) ==
    IF df.n = 0
    THEN [taux_retard |-> 0, taux_defaut |-> 0]
    ELSE kpis_of_orders(df)

calculer_kpis_globaux(df) ==
    IF df.n = 0
    THEN [taux_retard |-> 0, taux_defaut |-> 0, retard_moyen |-> 0,
          nb_fournisseurs |-> 0, nb_commandes |-> 0, defaut_max |-> 0,
          retard_max |-> 0, commandes_parfaites |-> 0, taux_conformite |-> 0]
    ELSE kpis_of_orders(df)

\* ------------------------------------------------- risques fournisseurs
\* Series.max() of a date column: the latest date, NaT when there is none.
max_date(s) ==
    LET vals == {s[i] : i \in DOMAIN s} \ {NaN}
    IN  IF vals = {} THEN NaN
        ELSE CHOOSE m \in vals : \A x \in vals : x.v <= m.v

\* strftime("%Y-%m-%d")
strftime(c) == DateStr("%Y-%m-%d", c.v)

NA == [k |-> "N/A", v |-> 0]

\* Mutant: the score is capped at 100 but not floored at 0.
score_total_unfloored(df_s) ==
    LET unit == df_s.n * Scale
        adjusted ==
            Min(8 * Sum(Values(df_s.col["delay"])), 50 * unit)
            + Min(800 * Sum(Values(df_s.col["defects"])), 50 * unit)
            + (IF detecter_tendance(df_s.col["defects"], DefaultSeuil) = "hausse" THEN 15 * unit ELSE 0)
            + (IF detecter_tendance(df_s.col["delay"], DefaultSeuil) = "hausse" THEN 10 * unit ELSE 0)
            - (IF detecter_tendance(df_s.col["defects"], DefaultSeuil) = "baisse" THEN 5 * unit ELSE 0)
            - (IF detecter_tendance(df_s.col["delay"], DefaultSeuil) = "baisse" THEN 5 * unit ELSE 0)
    IN  Min(adjusted, 100 * unit)

\* score_total of one supplier, as a numerator over unit = len(df_s) * Scale.
score_total(df_s) ==
    LET unit == df_s.n * Scale
        score_retard == Min(8 * Sum(Values(df_s.col["delay"])), 50 * unit)
        score_defaut == Min(800 * Sum(Values(df_s.col["defects"])), 50 * unit)
        tendance_defauts == detecter_tendance(df_s.col["defects"], DefaultSeuil)
        tendance_retards == detecter_tendance(df_s.col["delay"], DefaultSeuil)
        adjusted ==
            score_retard + score_defaut
            + (IF tendance_defauts = "hausse" THEN 15 * unit ELSE 0)
            + (IF tendance_retards = "hausse" THEN 10 * unit ELSE 0)
            - (IF tendance_defauts = "baisse" THEN 5 * unit ELSE 0)
            - (IF tendance_retards = "baisse" THEN 5 * unit ELSE 0)
    IN  Max(0, Min(adjusted, 100 * unit))

\* The tier of a score_total given as a numerator over unit.
niveau_risque(score, unit) ==
    IF score < 25 * unit THEN "Faible"
    ELSE IF score < 55 * unit THEN "Modéré"
    ELSE "Élevé"

status_of(niveau) ==
    CASE niveau = "Faible" -> "good"
      [] niveau = "Modéré" -> "warning"
      [] OTHER -> "alert"

\* The record appended for one supplier, df_s being its rows: score_total is
\* computed once, the tier is read from it and the record reports it rounded.
\* score_risque and retard_moyen are in tenths, taux_retard in tenths of a
\* percent, taux_defaut in hundredths of a percent.  The two volatilite
\* fields (standard deviations) are left out.
risque_record(df_s, supplier, today) ==
    CHOOSE record \in
        {[supplier |-> supplier,
          score_risque |-> RoundDiv(score * 10, df_s.n * Scale),
          niveau_risque |-> niveau_risque(score, df_s.n * Scale),
          status |-> status_of(niveau_risque(score, df_s.n * Scale)),
          retard_moyen |-> RoundDiv(Sum(Values(df_s.col["delay"])) * 10, df_s.n * Scale),
          taux_defaut |->
              RoundDiv(Sum(Values(df_s.col["defects"])) * 100 * 100, df_s.n * Scale),
          taux_retard |->
              RoundDiv(Count(df_s.col["delay"], LAMBDA d : NumGt(d, Num(0))) * 1000, df_s.n),
          nb_commandes |-> df_s.n,
          tendance_defauts |-> detecter_tendance(df_s.col["defects"], DefaultSeuil),
          tendance_retards |-> detecter_tendance(df_s.col["delay"], DefaultSeuil),
          derniere_commande |->
              IF notna(max_date(df_s.col["date_delivered"]))
              THEN strftime(max_date(df_s.col["date_delivered"]))
              ELSE IF notna(max_date(df_s.col["date_promised"]))
              THEN strftime(max_date(df_s.col["date_promised"]))
              ELSE NA,
          jours_depuis_derniere |->
              IF notna(max_date(df_s.col["date_delivered"]))
              THEN today - max_date(df_s.col["date_delivered"]).v
              ELSE -1] : score \in {score_total(df_s)}} : TRUE

\* df_s = df[df["supplier"] == supplier] and its record.
risque_fournisseur(df, supplier, today) ==
    CHOOSE record \in
        {risque_record(df_s, supplier, today) : df_s \in {rows_of_supplier(df, supplier)}} : TRUE

\* Mutant: an ascending sort read backwards, which turns equal scores round.
sort_by_score_reversed(records) ==
    LET p == CHOOSE q \in [DOMAIN records -> DOMAIN records] :
                 /\ \A i, j \in DOMAIN records : i # j => q[i] # q[j]
                 /\ \A i, j \in DOMAIN records :
                       i < j => \/ records[q[i]].score_risque > records[q[j]].score_risque
                                \/ /\ records[q[i]].score_risque = records[q[j]].score_risque
                                   /\ q[i] > q[j]
    IN  [i \in DOMAIN records |-> records[p[i]]]

\* fournisseurs.sort(key=score_risque, reverse=True): descending and stable.
sort_by_score(records) ==
    LET p == CHOOSE q \in [DOMAIN records -> DOMAIN records] :
                 /\ \A i, j \in DOMAIN records : i # j => q[i] # q[j]
                 /\ \A i, j \in DOMAIN records :
                       i < j => \/ records[q[i]].score_risque > records[q[j]].score_risque
                                \/ /\ records[q[i]].score_risque = records[q[j]].score_risque
                                   /\ q[i] < q[j]
    IN  [i \in DOMAIN records |-> records[p[i]]]

calculer_risques_fournisseurs(df, today) ==
    IF df.n = 0 THEN <<>>
    ELSE LET suppliers == unique(df.col["supplier"])
         IN  sort_by_score([k \in DOMAIN suppliers |->
                               risque_fournisseur(df, suppliers[k], today)])

\* -------------------------------------------------- actions recommandees
Action(f, action, priority) ==
    [supplier |-> f.supplier, action |-> action, priority |-> priority]

\* The actions appended for one record of the risk list.
actions_for(f) ==
    IF f.niveau_risque = "Élevé"
    THEN << Action(f, "Audit 8D complet requis", "high") >>
         \o (IF f.taux_defaut >= 5 * 100
             THEN << Action(f, "Recalibrer le processus", "high") >> ELSE <<>>)
         \o (IF f.retard_moyen >= 5 * 10
             THEN << Action(f, "Revoir la chaîne logistique", "high") >> ELSE <<>>)
    ELSE IF f.niveau_risque = "Modéré"
    THEN (IF f.tendance_retards = "hausse"
          THEN << Action(f, "Point logistique hebdomadaire", "medium") >> ELSE <<>>)
         \o (IF f.tendance_defauts = "hausse"
             THEN << Action(f, "Former les équipes QC", "medium") >> ELSE <<>>)
    ELSE IF f.jours_depuis_derniere > 60
    THEN << Action(f, "Appel de courtoisie", "low") >>
    ELSE <<>>

RECURSIVE actions_from(_, _)
actions_from(fournisseurs, i) ==
    IF i > Len(fournisseurs) THEN <<>>
    ELSE actions_for(fournisseurs[i]) \o actions_from(fournisseurs, i + 1)

obtenir_actions_recommandees(fournisseurs) == actions_from(fournisseurs, 1)

\* ---------------------------------------------------- predictions avancees
Abs(x) == IF x < 0 THEN -x ELSE x

RECURSIVE GCD(_, _)
GCD(a, b) == IF b = 0 THEN Abs(a) ELSE GCD(b, a % b)

RECURSIVE GCDFrom(_, _)
GCDFrom(s, i) == IF i > Len(s) THEN 0 ELSE GCD(s[i], GCDFrom(s, i + 1))

RECURSIVE Pow10(_)
Pow10(k) == IF k = 0 THEN 1 ELSE 10 * Pow10(k - 1)

\* df[df["supplier"] == supplier].sort_values("date_promised"): the rows of
\* one supplier by promised date, NaT last, equal dates in table order.
history(df, supplier) ==
    LET df_s == rows_of_supplier(df, supplier)
    IN  take(df_s, sort_order(df_s, << "date_promised" >>))

\* rolling(window=fenetre, min_periods=1).mean().iloc[-1]: the mean of the
\* last min(n, fenetre) values, as num / den.
moving_average(y, window) ==
    LET w == Min(Len(y), window)
    IN  [num |-> Sum([k \in 1..w |-> y[Len(y) - w + k]]), den |-> w]

\* max(0, LinearRegression().fit(X, y).predict([[n]])[0]) with X = 0..n-1:
\* mean(y) + slope * (n - mean(x)), a weighted sum of y in lowest terms.
linear_forecast(y) ==
    LET n == Len(y)
        Sx == Sum([k \in 1..n |-> k - 1])
        Sxx == Sum([k \in 1..n |-> (k - 1) * (k - 1)])
        den == n * Sxx - Sx * Sx
        weight == [k \in 1..n |-> 2 * den + n * (n + 1) * (n * (k - 1) - Sx)]
        g == GCD(2 * n * den, GCDFrom(weight, 1))
    IN  [num |-> Max(0, Sum([k \in 1..n |-> (weight[k] \div g) * y[k]])),
         den |-> (2 * n * den) \div g]

\* exponential_smoothing(series, alpha = 0.3): the value after i points, as
\* a numerator over 10^(i-1).
RECURSIVE smoothed(_, _)
smoothed(y, i) ==
    IF i = 1 THEN y[1]
    ELSE 3 * y[i] * Pow10(i - 2) + 7 * smoothed(y, i - 1)

exponential_smoothing(y) == [num |-> smoothed(y, Len(y)), den |-> Pow10(Len(y) - 1)]

\* a^2 + b^2 + c^2 > 9 * k^2 for numbers whose squares exceed the integers
\* of TLC: each square is taken in three digits of base 10^4.
Base == 100 * 100

SquareDigits(x) ==
    LET h == Abs(x) \div Base
        l == Abs(x) % Base
    IN  [hi |-> h * h, mid |-> 2 * h * l, lo |-> l * l]

Carried(hi, mid, lo) ==
    LET m == mid + lo \div Base
    IN  << hi + m \div Base, m % Base, lo % Base >>

SquaresExceed(a, b, c, k) ==
    LET A == SquareDigits(a)
        B == SquareDigits(b)
        C == SquareDigits(c)
        K == SquareDigits(k)
        left == Carried(A.hi + B.hi + C.hi, A.mid + B.mid + C.mid, A.lo + B.lo + C.lo)
        right == Carried(9 * K.hi, 9 * K.mid, 9 * K.lo)
    IN  \/ left[1] > right[1]
        \/ left[1] = right[1] /\ left[2] > right[2]
        \/ left[1] = right[1] /\ left[2] = right[2] /\ left[3] > right[3]

\* np.var([ma, lr, exp]) > 0.01: the variance of three values is the sum of
\* the squares of their three differences over 9.  The values are numerators
\* over their own denominators in units of 1/scale, and are brought to the
\* unit 1 / (scale * D).
variance_exceeds(ma, lr, exp, scale) ==
    LET D == ma.den * lr.den * exp.den
        a == ma.num * lr.den * exp.den
        b == lr.num * ma.den * exp.den
        c == exp.num * ma.den * lr.den
    IN  SquaresExceed(a - b, a - c, b - c, (scale * D) \div 10)

\* variance_defects > 0.01 for the defect history y and the window.  The
\* rates and Scale are first divided by their common divisor, which changes
\* no ratio.
variance_defects_high(y, window) ==
    LET g == GCD(Scale, GCDFrom(y, 1))
        z == [k \in DOMAIN y |-> y[k] \div g]
    IN  variance_exceeds(moving_average(z, window), linear_forecast(z),
                         exponential_smoothing(z), Scale \div g)

confiance(df_s, window) ==
    IF variance_defects_high(Values(df_s.col["defects"]), window) THEN "basse"
    ELSE IF df_s.n >= window THEN "haute"
    ELSE "moyenne"

\* The record of one supplier.  The rounded predictions (predicted_*,
\* method_*) are left out.
prediction(df, supplier, window) ==
    LET df_s == history(df, supplier)
    IN  [supplier |-> supplier,
         confiance |-> confiance(df_s, window),
         nb_commandes_historique |-> df_s.n]

\* Mutant: a history of two orders is skipped as well.
calculer_predictions_skipping_pairs(df, window) ==
    IF df.n = 0 THEN <<>>
    ELSE LET suppliers == unique(df.col["supplier"])
             kept == SelectSeq(suppliers, LAMBDA x : rows_of_supplier(df, x).n > 2)
         IN  [k \in DOMAIN kept |-> prediction(df, kept[k], window)]

calculer_predictions_avancees(df, window) ==
    IF df.n = 0 THEN <<>>
    ELSE LET suppliers == unique(df.col["supplier"])
             kept == SelectSeq(suppliers, LAMBDA x : rows_of_supplier(df, x).n >= 2)
         IN  [k \in DOMAIN kept |-> prediction(df, kept[k], window)]

\* ------------------------------------------------------- reporting inputs
MaxOrders == 3
MaxPoints == 3

Suppliers == {Txt("Alpha"), Txt("Beta")}

\* An order: its delay in days and its defect rate in 1/Scale.
Profiles == { << 0, 0 >>, << 1, 0 >>, << 8, 0 >>, << 0, 312 >>, << 8, 5000 >> }

\* How the promised dates of a table run: day after day up to last month,
\* the same backwards, or day after day a season ago.
Calendars == {"recent", "backwards", "old"}

promised_on(calendar, i) ==
    CASE calendar = "recent" -> Today - 20 + i
      [] calendar = "backwards" -> Today - 20 - i
      [] calendar = "old" -> Today - 90 + i

\* The table charger_donnees hands to the analytics: delivered on the
\* promised day plus the delay.
table_of(supplier, profile, calendar) ==
    [n |-> Len(supplier),
     col |-> [c \in {"supplier", "date_promised", "date_delivered", "delay", "defects"} |->
                [i \in DOMAIN supplier |->
                    CASE c = "supplier" -> supplier[i]
                      [] c = "date_promised" -> Ts(promised_on(calendar, i))
                      [] c = "date_delivered" -> Ts(promised_on(calendar, i) + profile[i][1])
                      [] c = "delay" -> Num(profile[i][1] * Scale)
                      [] c = "defects" -> Num(profile[i][2])]]]

\* One supplier whose delays go 0, 0, 0, 5, 8, 10 days at a steady 5 % of
\* defects.
Escalation ==
    table_of([i \in 1..6 |-> Txt("Alpha")],
             << << 0, 500 >>, << 0, 500 >>, << 0, 500 >>, << 5, 500 >>, << 8, 500 >>, << 10, 500 >> >>,
             "recent")

\* One supplier with two orders promised last month and not delivered yet:
\* the date_delivered of the database is null.
Undelivered ==
    SetCol(table_of(<< Txt("Alpha"), Txt("Alpha") >>, << << 0, 0 >>, << 0, 0 >> >>, "recent"),
           "date_delivered", << NaN, NaN >>)

\* The series and thresholds detecter_tendance is called with.
Points == {NaN, Num(0), Num(DefaultSeuil), Num(2 * DefaultSeuil)}
Histories == UNION {[1..n -> Points] : n \in 0..MaxPoints}
Seuils == {DefaultSeuil, 2 * DefaultSeuil}

\* fenetre: int = 3, and the other window a caller asks for.
DefaultFenetre == 3
Fenetres == {2, DefaultFenetre}

\* -------------------------------------------------------- reporting state
NoUpload ==
    /\ raw = EmptyDF
    /\ mappings = <<>>
    /\ target_case = "unknown"
    /\ mode = "report"
    /\ pass = 0
    /\ result = NoResult
    /\ first = NoResult

\* The analytics compare supplier names for equality only, so the supplier
\* met first is called Alpha.
InitAnalyse ==
    /\ NoUpload
    /\ now = Today
    /\ \/ /\ \/ \E n \in 0..MaxOrders :
                   \E s \in [1..n -> Suppliers], p \in [1..n -> Profiles], c \in Calendars :
                       /\ n > 0 => s[1] = Txt("Alpha")
                       /\ table = table_of(s, p, c)
             \/ table = Escalation
             \/ table = Undelivered
          /\ serie = <<>>
          /\ seuil = 0
          /\ pc = "loaded"
       \/ /\ table = EmptyDF
          /\ serie \in Histories
          /\ seuil \in Seuils
          /\ pc = "serie"
    /\ fenetre = 0
    /\ kpis = <<>>
    /\ risques = <<>>
    /\ actions = <<>>
    /\ predictions = <<>>
    /\ tendance = ""
    /\ NoStore

\* The report of reporting_routes: the KPIs, the risks, the actions drawn
\* from the risks, then the predictions, each on the same table.
Kpis ==
    /\ pc = "loaded"
    /\ kpis' = calculer_kpis_globaux(table)
    /\ table' = frame_after_analytics(table, table)
    /\ pc' = "kpis"
    /\ UNCHANGED <<fenetre, risques, actions, predictions, serie, seuil, tendance>>
    /\ UNCHANGED <<upload, now>>
    /\ UNCHANGED store

Risques ==
    /\ pc = "kpis"
    /\ risques' = calculer_risques_fournisseurs(table, now)
    /\ table' = frame_after_analytics(table, table)
    /\ pc' = "risques"
    /\ UNCHANGED <<fenetre, kpis, actions, predictions, serie, seuil, tendance>>
    /\ UNCHANGED <<upload, now>>
    /\ UNCHANGED store

Recommend ==
    /\ pc = "risques"
    /\ actions' = obtenir_actions_recommandees(risques)
    /\ pc' = "actions"
    /\ UNCHANGED <<table, fenetre, kpis, risques, predictions, serie, seuil, tendance>>
    /\ UNCHANGED <<upload, now>>
    /\ UNCHANGED store

Predict ==
    /\ pc = "actions"
    /\ fenetre' \in Fenetres
    /\ predictions' = calculer_predictions_avancees(table, fenetre')
    /\ table' = frame_after_analytics(table, take(table, sort_order(table, << "date_promised" >>)))
    /\ pc' = "predictions"
    /\ UNCHANGED <<kpis, risques, actions, serie, seuil, tendance>>
    /\ UNCHANGED <<upload, now>>
    /\ UNCHANGED store

\* One call of detecter_tendance.
Tendance ==
    /\ pc = "serie"
    /\ tendance' = detecter_tendance(serie, seuil)
    /\ pc' = "tendance"
    /\ UNCHANGED <<table, fenetre, kpis, risques, actions, predictions, serie, seuil>>
    /\ UNCHANGED <<upload, now>>
    /\ UNCHANGED store

NextAnalyse == Kpis \/ Risques \/ Recommend \/ Predict \/ Tendance

SpecAnalyse == InitAnalyse /\ [][NextAnalyse]_vars

\* The calls that are handed a table: one call of normalize on an upload
\* whose mappings were approved, or a report.
InitAll == (Init /\ mode = "approved") \/ InitAnalyse

NextAll == Normalize \/ NextAnalyse

SpecAll == InitAll /\ [][NextAll]_vars

\* ======================================================= workspace routes
\* The three upload routes work on workspace_datasets through a database
\* session of their own (PostgreSQL, READ COMMITTED): what a session writes
\* is seen by the others once it commits, an UPDATE sees the rows committed
\* when it starts and waits for the rows another open session has written.
\* A dataset is known by its position in datasets, the order of the commits.

\* case_mapping.get(target_case, workspace.data_type)
case_mapping(case, current) ==
    CASE case = "delay_only" -> "CASE_A"
      [] case = "defects_only" -> "CASE_B"
      [] case = "mixed" -> "CASE_C"
      [] OTHER -> current

\* filter(WorkspaceDataset.workspace_id == workspace_id)
rows_of_workspace(ds, w) == {i \in DOMAIN ds : ds[i].workspace_id = w}

\* Mutant: the UPDATE has lost its filter and reaches every workspace.
deactivate_everywhere(ds, ids) ==
    [i \in DOMAIN ds |-> [ds[i] EXCEPT !.is_active = FALSE]]

\* update({"is_active": False}) on the rows the filter matched.
deactivate(ds, ids) ==
    [i \in DOMAIN ds |-> IF i \in ids THEN [ds[i] EXCEPT !.is_active = FALSE] ELSE ds[i]]

\* WorkspaceDataset(workspace_id=workspace_id, ..., is_active=True)
new_dataset(w) == [workspace_id |-> w, is_active |-> TRUE]

\* get_workspace_dataframe: the rows filter(workspace_id, is_active == True)
\* matches; first() returns one of them, None when there is none.
active_datasets(ds, w) == {i \in DOMAIN ds : ds[i].workspace_id = w /\ ds[i].is_active}

\* Mutant: workspace.data_type is assigned and committed before the result
\* is looked at.
data_type_assigned_early(current, requested) == requested

\* workspace.data_type after a request that returned before the assignment.
data_type_on_failure(current, requested) == current

\* The requests that hold a session with work in it.
InFlight ==
    {r \in Requests : requests[r].pc \in {"validated", "scanned", "deactivated", "added"}}

InitStore ==
    /\ raw = EmptyDF
    /\ mappings = <<>>
    /\ target_case = "unknown"
    /\ mode = "workspace"
    /\ now = Today
    /\ pc = "serving"
    /\ pass = 0
    /\ result = NoResult
    /\ first = NoResult
    /\ NoReport
    /\ NoStore

\* A route is called: the workspace is found, the file is read, validated
\* (upload_dataset) or normalized (the two LLM routes).  success says whether
\* the route goes on to store the dataset.  The request is served by the
\* first session that is free.
Receive ==
    /\ mode = "workspace"
    /\ \E r \in Requests, route \in Routes, w \in Workspaces, ok \in BOOLEAN,
          case \in Cases \cup {"unknown"} :
          /\ requests[r].pc \in {"idle", "done", "rejected", "failed"}
          /\ \A q \in Requests : q < r => q \in InFlight
          /\ route = "upload_dataset" => case = "unknown"
          /\ Len(datasets) + Cardinality(InFlight) < MaxDatasets
          /\ requests' = [requests EXCEPT ![r] =
                 [pc |-> "validated", route |-> route, workspace_id |-> w, success |-> ok,
                  target_case |-> case, matched |-> {}, written |-> {}]]
    /\ UNCHANGED <<datasets, data_type>>
    /\ UNCHANGED <<upload, now, pc>>
    /\ UNCHANGED report

\* A route called while no other upload is being served.
ReceiveAlone ==
    /\ InFlight = {}
    /\ Receive

\* The route returns without storing: HTTP 400 of upload_dataset, the
\* success = false answer of apply_llm_mappings, the analysis of
\* smart_upload_with_llm.
Reject ==
    /\ \E r \in Requests :
          /\ requests[r].pc = "validated"
          /\ ~requests[r].success
          /\ data_type' = [data_type EXCEPT ![requests[r].workspace_id] =
                 data_type_on_failure(@, case_mapping(requests[r].target_case, @))]
          /\ requests' = [requests EXCEPT ![r].pc = "rejected"]
    /\ UNCHANGED datasets
    /\ UNCHANGED <<upload, now, pc>>
    /\ UNCHANGED report

\* "Deactivate previous datasets": the UPDATE starts and finds its rows.
Scan ==
    /\ \E r \in Requests :
          /\ requests[r].pc = "validated"
          /\ requests[r].success
          /\ requests' = [requests EXCEPT
                 ![r].pc = "scanned",
                 ![r].matched = rows_of_workspace(datasets, requests[r].workspace_id)]
    /\ UNCHANGED <<datasets, data_type>>
    /\ UNCHANGED <<upload, now, pc>>
    /\ UNCHANGED report

\* The UPDATE writes its rows, once no other open session has written them.
Deactivate ==
    /\ \E r \in Requests :
          /\ requests[r].pc = "scanned"
          /\ \A q \in Requests \ {r} : requests[q].written \cap requests[r].matched = {}
          /\ requests' = [requests EXCEPT
                 ![r].pc = "deactivated",
                 ![r].written = requests[r].matched]
    /\ UNCHANGED <<datasets, data_type>>
    /\ UNCHANGED <<upload, now, pc>>
    /\ UNCHANGED report

\* db.add(new_dataset), and workspace.data_type = data_type in the LLM
\* routes: both wait in the session for the commit.
Insert ==
    /\ \E r \in Requests :
          /\ requests[r].pc = "deactivated"
          /\ requests' = [requests EXCEPT ![r].pc = "added"]
    /\ UNCHANGED <<datasets, data_type>>
    /\ UNCHANGED <<upload, now, pc>>
    /\ UNCHANGED report

\* db.commit()
Commit ==
    /\ \E r \in Requests :
          /\ requests[r].pc = "added"
          /\ datasets' = Append(deactivate(datasets, requests[r].written),
                                new_dataset(requests[r].workspace_id))
          /\ data_type' = [data_type EXCEPT ![requests[r].workspace_id] =
                 IF requests[r].route = "upload_dataset" THEN @
                 ELSE case_mapping(requests[r].target_case, @)]
          /\ requests' = [requests EXCEPT ![r] = [Idle EXCEPT !.pc = "done"]]
    /\ UNCHANGED <<upload, now, pc>>
    /\ UNCHANGED report

\* An exception between the UPDATE and the commit (HTTP 500): the session is
\* closed and what it wrote is rolled back.
Abort ==
    /\ \E r \in Requests :
          /\ requests[r].pc \in {"scanned", "deactivated", "added"}
          /\ requests' = [requests EXCEPT ![r] = [Idle EXCEPT !.pc = "failed"]]
    /\ UNCHANGED <<datasets, data_type>>
    /\ UNCHANGED <<upload, now, pc>>
    /\ UNCHANGED report

NextStore == Receive \/ Reject \/ Scan \/ Deactivate \/ Insert \/ Commit \/ Abort

SpecStore == InitStore /\ [][NextStore]_vars

\* The uploads of a caller that sends one request at a time.
NextSequential == ReceiveAlone \/ Reject \/ Scan \/ Deactivate \/ Insert \/ Commit \/ Abort

SpecSequential == InitStore /\ [][NextSequential]_vars

\* ------------------------------------------------------------- properties
\* A call of normalize has returned an IngestionResult that holds a dataset.
HasDataset == pc = "returned" /\ result.has_df

\* The source columns of the uploaded file that the mappings give to a role.
SourcesOf(role) ==
    {mappings[i].source_column :
        i \in {j \in DOMAIN mappings :
                 mappings[j].target_role = role /\ HasCol(raw, mappings[j].source_column)}}

InUnitRange(c) == c.k = "num" /\ 0 <= c.v /\ c.v <= One

\* C1: whenever normalize returns a dataset, it has a defects column and every
\* row's defects is a number in [0, 1], whatever the scale of the input.
C1_DefectsBounded ==
    HasDataset =>
        /\ HasCol(result.dataframe, "defects")
        /\ \A i \in 1..result.dataframe.n : InUnitRange(result.dataframe.col["defects"][i])

\* C1 witness: a dataset is returned after out-of-range defect values were
\* clipped, one of them down to exactly 1.
C1_Witness ==
    /\ HasDataset
    /\ \E i \in DOMAIN result.warnings : result.warnings[i].code = "defects_clipped"
    /\ \E i \in 1..result.dataframe.n : result.dataframe.col["defects"][i] = Num(One)

\* C2: in every returned dataset the delay values are numbers >= 0; a negative,
\* null or non-numeric raw delay gives 0, and so does a delivery earlier than
\* the promised date.  (result.validated is the frame before sorting, row by
\* row the uploaded file.)
C2_DelayNonNegative ==
    HasDataset =>
        /\ HasCol(result.dataframe, "delay") =>
              \A i \in 1..result.dataframe.n :
                  ~NumLt(result.dataframe.col["delay"][i], Num(0))
                  /\ result.dataframe.col["delay"][i].k \in {"num", "inf"}
        /\ \A src \in SourcesOf("delay") : \A i \in 1..raw.n :
              (raw.col[src][i].k \in {"nan", "txt"}
               \/ (raw.col[src][i].k = "num" /\ raw.col[src][i].v < 0))
              => result.validated.col["delay"][i] = Num(0)
        /\ (SourcesOf("delay") = {} /\ HasCol(result.validated, "date_promised")
            /\ HasCol(result.validated, "date_delivered")) =>
              \A i \in 1..result.validated.n :
                  (result.validated.col["date_promised"][i].k = "ts"
                   /\ result.validated.col["date_delivered"][i].k = "ts"
                   /\ result.validated.col["date_delivered"][i].v
                        < result.validated.col["date_promised"][i].v)
                  => result.validated.col["delay"][i] = Num(0)

\* C2 witness: a negative raw delay and an unreadable one, both returned as 0.
C2_Witness ==
    /\ HasDataset
    /\ pass = 1
    /\ \E src \in SourcesOf("delay") : \E i, j \in 1..raw.n :
          /\ raw.col[src][i] = Num(-2 * Scale)
          /\ raw.col[src][j] = Txt("text")
          /\ result.validated.col["delay"][i] = Num(0)
          /\ result.validated.col["delay"][j] = Num(0)

\* The entries of the returned warnings list that report a caught exception.
FailureEntries ==
    {i \in DOMAIN result.warnings : result.warnings[i].code = "normalization_failed"}

HasError(code) ==
    \E i \in DOMAIN result.warnings :
        result.warnings[i].code = code /\ result.warnings[i].severity = "error"

\* C3: normalize never lets an exception out: a call always returns, and a
\* call in which a step failed returns success = false with a single
\* error-severity entry that carries the exception message.
C3_NeverRaises ==
    /\ pc # "raised"
    /\ (pc = "returned" /\ ~result.has_df) =>
          /\ ~result.success
          /\ Cardinality(FailureEntries) = 1
          /\ \A i \in FailureEntries :
                result.warnings[i].severity = "error" /\ result.warnings[i].detail # ""

\* The four conditions of the validation step, on the frame it is given.
ValidationFails(df) ==
    supplier_missing(df) \/ negative_delays(df) > 0 \/ invalid_defects(df) > 0 \/ no_rows(df)

EachFailureReported(df) ==
    /\ supplier_missing(df) => HasError("missing_supplier")
    /\ negative_delays(df) > 0 => HasError("negative_delay")
    /\ invalid_defects(df) > 0 => HasError("defects_out_of_range")
    /\ no_rows(df) => HasError("no_rows")

\* C4 as stated: a returned result has success = false exactly when one of
\* the four validation conditions holds, each one that holds being reported.
C4_FailsExactlyOnValidation ==
    pc = "returned" =>
        /\ ~result.success <=> ValidationFails(result.validated)
        /\ EachFailureReported(result.validated)

\* C4 amended: a returned result has success = false exactly when one of the
\* four validation conditions holds or a step after validation raised (the
\* result then carries the "Normalization failed" entry); every validation
\* condition that holds has its own error-severity entry.
C4_FailsOnValidationOrException ==
    pc = "returned" =>
        /\ ~result.success <=> (ValidationFails(result.validated) \/ FailureEntries # {})
        /\ EachFailureReported(result.validated)

\* C4 witness: a returned result for a frame with no supplier column and no
\* rows, both reported.
C4_Witness ==
    /\ pc = "returned"
    /\ ~result.success
    /\ supplier_missing(result.validated) /\ no_rows(result.validated)
    /\ HasError("missing_supplier") /\ HasError("no_rows")

\* C5: when the file gives defective_items and total_items and the mappings
\* come from the analyzer, every returned row has
\* defects = defective_items / total_items.
C5_DefectsFromCounts ==
    (HasDataset /\ mode = "analyzed" /\ pass = 1
     /\ HasCol(raw, "defective_items") /\ HasCol(raw, "total_items")) =>
        \A i \in 1..raw.n :
            result.validated.col["defects"][i].v * (raw.col["total_items"][i].v \div Scale)
                = raw.col["defective_items"][i].v

\* The value a raw cell counts for in a numeric column whose nulls are filled
\* with d: its own number, or d when it is null or not a number.
RawNumber(c, d) == IF c.k = "num" THEN c.v ELSE d

Clamp(x, lo, hi) == IF x < lo THEN lo ELSE IF x > hi THEN hi ELSE x

Max0(x) == IF x < 0 THEN 0 ELSE x

\* C6 as stated: with a defects column mapped directly, each row is treated
\* on its own value: a value above 1 is divided by 100, any other value is
\* kept, and the result is clamped to [0, 1].
C6_DefectsScaledPerRow ==
    (HasDataset /\ pass = 1) =>
        \A src \in SourcesOf("defects") : \A i \in 1..raw.n :
            (raw.col[src][i].k = "num") =>
                result.validated.col["defects"][i].v =
                    IF raw.col[src][i].v > One
                    THEN Clamp(raw.col[src][i].v \div 100, 0, One)
                    ELSE Clamp(raw.col[src][i].v, 0, One)

\* C6 amended: the scale is decided once for the whole column.  When the
\* largest value of the column (null and non-numeric cells counting as 0) is
\* above 1, every value is divided by 100 and clamped to [0, 1]; otherwise
\* every value is clamped to [0, 1] as it is.
C6_DefectsScaledPerColumn ==
    (HasDataset /\ pass = 1) =>
        \A src \in SourcesOf("defects") : \A i \in 1..raw.n :
            result.validated.col["defects"][i].v =
                IF \E j \in 1..raw.n : RawNumber(raw.col[src][j], 0) > One
                THEN Clamp(RawNumber(raw.col[src][i], 0) \div 100, 0, One)
                ELSE Clamp(RawNumber(raw.col[src][i], 0), 0, One)

\* C6 witness: a column holding 0.5 and 5 is returned as 0.005 and 0.05.
C6_Witness ==
    /\ HasDataset
    /\ pass = 1
    /\ \E src \in SourcesOf("defects") : \E i, j \in 1..raw.n :
          /\ raw.col[src][i] = Num(Scale \div 2)
          /\ raw.col[src][j] = Num(5 * Scale)
          /\ result.validated.col["defects"][i] = Num(Scale \div 200)
          /\ result.validated.col["defects"][j] = Num(Scale \div 20)

\* C7: with quality_score mapped and defects not, a column whose values
\* exceed 1 gives every row (100 - clamp(quality, 0, 100)) / 100, and a column
\* whose values all lie in [0, 1] gives every row 1 - clamp(quality, 0, 1),
\* also when other rows of the column are null or not numbers.
C7_QualityToDefects ==
    (HasDataset /\ pass = 1 /\ SourcesOf("defects") = {}) =>
        \A src \in SourcesOf("quality_score") : \A i \in 1..raw.n :
            (raw.col[src][i].k = "num") =>
                result.validated.col["defects"][i].v =
                    IF \E j \in 1..raw.n : raw.col[src][j].k = "num" /\ raw.col[src][j].v > One
                    THEN (Hundred - Clamp(raw.col[src][i].v, 0, Hundred)) \div 100
                    ELSE One - Clamp(raw.col[src][i].v, 0, One)

\* C8: for delay_only with supplier and both dates mapped and no delay,
\* defects or quality_score column, every row has defects = 0.0 and, its two
\* dates being known, delay = max(0, days from date_promised to
\* date_delivered); dates written as YYYY-MM-DD are read as written.
C8_DelayOnlyFromDates ==
    (pc = "returned" /\ pass = 1 /\ target_case = "delay_only"
     /\ SourcesOf("supplier") # {} /\ SourcesOf("date_promised") # {}
     /\ SourcesOf("date_delivered") # {} /\ SourcesOf("delay") = {}
     /\ SourcesOf("defects") = {} /\ SourcesOf("quality_score") = {}) =>
        /\ result.has_df \/ raw.n = 0
        /\ \A i \in 1..raw.n :
              LET promised == result.validated.col["date_promised"][i]
                  delivered == result.validated.col["date_delivered"][i]
              IN  /\ result.validated.col["defects"][i] = Num(0)
                  /\ (promised.k = "ts" /\ delivered.k = "ts") =>
                        result.validated.col["delay"][i] =
                            Num(Max0(delivered.v - promised.v) * Scale)
        /\ \A p \in SourcesOf("date_promised"), d \in SourcesOf("date_delivered") :
              \A i \in 1..raw.n :
                  (/\ \A j \in 1..raw.n : raw.col[p][j].k \in {"%Y-%m-%d", "nan"}
                   /\ \A j \in 1..raw.n : raw.col[d][j].k \in {"%Y-%m-%d", "nan"}
                   /\ raw.col[p][i].k = "%Y-%m-%d" /\ raw.col[d][i].k = "%Y-%m-%d") =>
                      result.validated.col["delay"][i] =
                          Num(Max0(raw.col[d][i].v - raw.col[p][i].v) * Scale)

\* C8 witness: promised on day 1, delivered on day 3, returned with delay 2
\* and defects 0.0.
C8_Witness ==
    /\ HasDataset /\ pass = 1 /\ target_case = "delay_only"
    /\ HasCol(raw, "date_promised") /\ HasCol(raw, "date_delivered")
    /\ \E i \in 1..raw.n :
          /\ raw.col["date_promised"][i] = DateStr("%Y-%m-%d", 1)
          /\ raw.col["date_delivered"][i] = DateStr("%Y-%m-%d", 3)
          /\ result.validated.col["delay"][i] = Num(2 * Scale)
          /\ result.validated.col["defects"][i] = Num(0)

CanonicalColumns == {Canonical[i] : i \in DOMAIN Canonical}

\* The frame has the five columns of the canonical schema.
IsCanonical(df) == CanonicalColumns \subseteq columns(df)

\* Frame b holds the rows of frame a, each as often, on the canonical columns.
SameCanonicalRows(a, b) ==
    /\ a.n = b.n
    /\ columns(a) \cap CanonicalColumns = columns(b) \cap CanonicalColumns
    /\ \E p \in [1..a.n -> 1..a.n] :
          /\ \A i, j \in 1..a.n : i # j => p[i] # p[j]
          /\ \A i \in 1..a.n : \A c \in columns(a) \cap CanonicalColumns :
                a.col[c][i] = b.col[c][p[i]]

\* The second call of normalize, on the frame of a successful first call
\* that has the five canonical columns, has finished.
SecondPassDone == pass = 2 /\ pc # "mapped" /\ IsCanonical(first.dataframe)

\* C9: normalize is idempotent on canonical data.  A successful result that
\* has the five canonical columns, normalized again under the identity
\* mappings and the same target case, is returned with success = true and
\* the same rows, delay and defects unchanged, and without a clipping warning.
C9_Idempotent ==
    SecondPassDone =>
        /\ pc = "returned" /\ result.success /\ result.has_df
        /\ SameCanonicalRows(first.dataframe, result.dataframe)
        /\ result.dataframe.col["delay"] = first.dataframe.col["delay"]
        /\ result.dataframe.col["defects"] = first.dataframe.col["defects"]
        /\ ~\E i \in DOMAIN result.warnings : result.warnings[i].code = "defects_clipped"

\* C9 witness: a canonical result with a row of positive delay and positive
\* defect rate has gone through normalize a second time.
C9_Witness ==
    /\ SecondPassDone
    /\ pc = "returned"
    /\ \E i \in 1..first.dataframe.n :
          /\ NumGt(first.dataframe.col["delay"][i], Num(0))
          /\ NumGt(first.dataframe.col["defects"][i], Num(0))

\* C10: every result with success = true carries a dataset with the five
\* canonical columns supplier, date_promised, date_delivered, delay, defects.
C10_CanonicalColumns ==
    (pc = "returned" /\ result.success) =>
        result.has_df /\ IsCanonical(result.dataframe)

\* C11: normalize is deterministic.  A call repeated with the same table,
\* mappings and target case returns the same success flag and the same
\* dataset, cell by cell, whatever the time of each call.
C11_Deterministic ==
    (pass = 3 /\ pc # "mapped") =>
        /\ pc = "returned"
        /\ result.success = first.success
        /\ result.has_df = first.has_df
        /\ result.dataframe = first.dataframe

RisksDone == pc \in {"risques", "actions", "predictions"}

\* The stated score of a history, as a numerator over len * Scale: the two
\* capped sub-scores, the trend adjustments, the clamp.
StatedScore(df_s) ==
    LET unit == df_s.n * Scale
        defauts == detecter_tendance(df_s.col["defects"], DefaultSeuil)
        retards == detecter_tendance(df_s.col["delay"], DefaultSeuil)
        Rising(t, points) == IF t = "hausse" THEN points * unit ELSE 0
        Falling(t) == IF t = "baisse" THEN 5 * unit ELSE 0
    IN  Clamp(Min(8 * Sum(Values(df_s.col["delay"])), 50 * unit)
              + Min(800 * Sum(Values(df_s.col["defects"])), 50 * unit)
              + Rising(defauts, 15) + Rising(retards, 10)
              - Falling(defauts) - Falling(retards),
              0, 100 * unit)

\* C13: for every supplier the score is the clamp to [0,100] of
\* min(8 * mean delay, 50) + min(800 * mean defects, 50), plus 15 for a rising
\* defect trend, plus 10 for a rising delay trend, minus 5 for each falling
\* trend; the reported score_risque (in tenths) is that score rounded, and
\* lies within [0,100].
C13_ScoreClamped ==
    RisksDone =>
        \A k \in DOMAIN risques :
            LET df_s == rows_of_supplier(table, risques[k].supplier)
            IN  /\ risques[k].score_risque = RoundDiv(StatedScore(df_s) * 10, df_s.n * Scale)
                /\ risques[k].score_risque >= 0
                /\ risques[k].score_risque <= 100 * 10

\* A supplier with some delay whose falling delay trend takes more off than
\* its base score: the score is floored at 0.
C13_Witness ==
    /\ RisksDone
    /\ \E k \in DOMAIN risques :
          LET df_s == rows_of_supplier(table, risques[k].supplier)
              base == 8 * Sum(Values(df_s.col["delay"])) + 800 * Sum(Values(df_s.col["defects"]))
          IN  /\ risques[k].tendance_retards = "baisse"
              /\ base > 0
              /\ base < 5 * df_s.n * Scale
              /\ risques[k].score_risque = 0

\* C14: in every record of the risk list the tier agrees with the reported
\* score: Faible exactly when score_risque < 25, Modéré exactly when
\* 25 <= score_risque < 55, Élevé exactly when score_risque >= 55 (in tenths:
\* 250 and 550), so that a reported 25.0 is Modéré and a reported 55.0 Élevé.
C14_TierMatchesReportedScore ==
    RisksDone =>
        \A k \in DOMAIN risques :
            /\ risques[k].niveau_risque = "Faible" <=> risques[k].score_risque < 25 * 10
            /\ risques[k].niveau_risque = "Modéré" <=>
                   (risques[k].score_risque >= 25 * 10 /\ risques[k].score_risque < 55 * 10)
            /\ risques[k].niveau_risque = "Élevé" <=> risques[k].score_risque >= 55 * 10

\* The row of the table where a supplier is first met.
FirstMet(supplier) ==
    CHOOSE i \in 1..table.n :
        /\ table.col["supplier"][i] = supplier
        /\ \A j \in 1..(i - 1) : table.col["supplier"][j] # supplier

\* C15: the risk list has exactly one record per distinct supplier of the
\* table and is ordered by score_risque descending; suppliers with equal
\* score_risque come in the order in which the table first meets them.
C15_OnePerSupplierSorted ==
    RisksDone =>
        /\ {risques[k].supplier : k \in DOMAIN risques}
               = {table.col["supplier"][i] : i \in 1..table.n}
        /\ \A i, j \in DOMAIN risques :
              i < j =>
                  /\ risques[i].supplier # risques[j].supplier
                  /\ risques[i].score_risque >= risques[j].score_risque
                  /\ risques[i].score_risque = risques[j].score_risque
                        => FirstMet(risques[i].supplier) < FirstMet(risques[j].supplier)

\* Two suppliers with the same reported score, the first of them met more
\* than once in the table.
C15_Witness ==
    /\ RisksDone
    /\ Len(risques) = 2
    /\ risques[1].score_risque = risques[2].score_risque
    /\ risques[1].nb_commandes > 1

\* The non-NaN points of the series as (index from 0, value), and the
\* least-squares slope through them, SlopeNum / SlopeDen in 1/Scale, from
\* the deviations of index and value from their means (times the number of
\* points).
ValidPoints == {i \in DOMAIN serie : notna(serie[i])}

RECURSIVE SetSum(_, _)
SetSum(S, f) ==
    IF S = {} THEN 0
    ELSE LET i == CHOOSE x \in S : TRUE
         IN  f[i] + SetSum(S \ {i}, f)

SlopeNum ==
    LET m == Cardinality(ValidPoints)
        dx == [i \in ValidPoints |-> m * (i - 1) - SetSum(ValidPoints, [j \in ValidPoints |-> j - 1])]
        dy == [i \in ValidPoints |-> m * serie[i].v - SetSum(ValidPoints, [j \in ValidPoints |-> serie[j].v])]
    IN  SetSum(ValidPoints, [i \in ValidPoints |-> dx[i] * dy[i]])

SlopeDen ==
    LET m == Cardinality(ValidPoints)
        dx == [i \in ValidPoints |-> m * (i - 1) - SetSum(ValidPoints, [j \in ValidPoints |-> j - 1])]
    IN  SetSum(ValidPoints, [i \in ValidPoints |-> dx[i] * dx[i]])

\* C16: detecter_tendance answers stable for a series with fewer than 2
\* non-NaN points and for a constant series; otherwise hausse exactly when
\* the least-squares slope of the non-NaN points is above the threshold,
\* baisse exactly when it is below minus the threshold, and stable when it
\* is within or exactly at plus or minus the threshold.
C16_TrendBySlope ==
    pc = "tendance" =>
        /\ Cardinality(ValidPoints) < 2 => tendance = "stable"
        /\ (\A i, j \in DOMAIN serie : serie[i] = serie[j]) => tendance = "stable"
        /\ Cardinality(ValidPoints) >= 2 =>
              /\ tendance = "hausse" <=> SlopeNum > seuil * SlopeDen
              /\ tendance = "baisse" <=> SlopeNum < -seuil * SlopeDen
              /\ tendance = "stable" <=>
                     (SlopeNum <= seuil * SlopeDen /\ SlopeNum >= -seuil * SlopeDen)

\* A series with a NaN gap whose slope is exactly the threshold.
C16_Witness ==
    /\ pc = "tendance"
    /\ Cardinality(ValidPoints) >= 2
    /\ Cardinality(ValidPoints) < Len(serie)
    /\ SlopeNum = seuil * SlopeDen
    /\ tendance = "stable"

\* The action list has been drawn from the risk list.
ActionsDone == pc \in {"actions", "predictions"}

\* The actions about logistics.
LogisticsActions == {"Revoir la chaîne logistique", "Point logistique hebdomadaire"}

\* C17: for the supplier whose delays go 0, 0, 0, 5, 8, 10 with defects high
\* enough for the tier Élevé, the risk list reports tendance_retards = hausse
\* and the action list holds a logistics action of priority high for it.
C17_EscalationLogistics ==
    (ActionsDone /\ table = Escalation) =>
        \A k \in DOMAIN risques :
            risques[k].niveau_risque = "Élevé" =>
                /\ risques[k].tendance_retards = "hausse"
                /\ \E a \in DOMAIN actions :
                      /\ actions[a].supplier = risques[k].supplier
                      /\ actions[a].priority = "high"
                      /\ actions[a].action \in LogisticsActions

\* The position in the risk list of the supplier an action is for.
RecordOf(a) == CHOOSE k \in DOMAIN risques : risques[k].supplier = actions[a].supplier

\* The actions of one record of the risk list.
ActionsOf(k) == {actions[a] : a \in {b \in DOMAIN actions : actions[b].supplier = risques[k].supplier}}

\* C18: obtenir_actions_recommandees emits at least one action for every
\* supplier of its input list, in input order: the audit for an Élevé
\* supplier, a training or monitoring action (priority medium) for a Modéré
\* supplier whatever its trends, a monitoring action (priority low) for a
\* Faible supplier however recent its last order.
C18_EverySupplierGetsAnAction ==
    ActionsDone =>
        /\ \A a, b \in DOMAIN actions : a < b => RecordOf(a) <= RecordOf(b)
        /\ \A k \in DOMAIN risques :
              /\ ActionsOf(k) # {}
              /\ risques[k].niveau_risque = "Élevé" =>
                     \E x \in ActionsOf(k) : x.action = "Audit 8D complet requis"
              /\ risques[k].niveau_risque = "Modéré" =>
                     \E x \in ActionsOf(k) : x.priority = "medium"
              /\ risques[k].niveau_risque = "Faible" =>
                     \E x \in ActionsOf(k) : x.priority = "low"

\* The defect rates of the history of a supplier, in promised-date order.
DefectHistory(supplier) == Values(history(table, supplier).col["defects"])

\* C19: the confidence of a supplier is haute whenever its history is at
\* least as long as the window, whatever the spread of the three defect
\* predictions; only for a shorter history is it basse when their variance
\* exceeds 0.01 and moyenne otherwise.
C19_ConfidenceByHistoryFirst ==
    pc = "predictions" =>
        \A k \in DOMAIN predictions :
            LET p == predictions[k]
                spread == variance_defects_high(DefectHistory(p.supplier), fenetre)
            IN  IF p.nb_commandes_historique >= fenetre THEN p.confiance = "haute"
                ELSE IF spread THEN p.confiance = "basse"
                ELSE p.confiance = "moyenne"

\* The number of rows of a supplier in the table, and of its records in the
\* prediction list.
RowsFor(supplier) == Cardinality({i \in 1..table.n : table.col["supplier"][i] = supplier})

RecordsFor(supplier) ==
    Cardinality({k \in DOMAIN predictions : predictions[k].supplier = supplier})

\* C20: the prediction list holds exactly one record for each supplier with
\* at least 2 rows in the table and none for a supplier with fewer; an empty
\* table gives an empty list.
C20_OnePredictionPerHistory ==
    pc = "predictions" =>
        /\ \A supplier \in Suppliers :
              RecordsFor(supplier) = IF RowsFor(supplier) >= 2 THEN 1 ELSE 0
        /\ table.n = 0 => predictions = <<>>

\* A table in which one supplier has two orders and the other a single one.
C20_Witness ==
    /\ pc = "predictions"
    /\ \E kept, skipped \in Suppliers :
          /\ RowsFor(kept) = 2
          /\ RowsFor(skipped) = 1
          /\ RecordsFor(kept) = 1
          /\ RecordsFor(skipped) = 0

\* The keys of the KPIs of a table that has orders.
KpiKeys == DOMAIN calculer_kpis_globaux(Escalation)

KpisDone == mode = "report" /\ pc \in {"kpis", "risques", "actions", "predictions"}

\* C21: the KPIs of an empty table are returned with the same keys as the
\* KPIs of a table that has orders, and every one of them is 0.
C21_EmptyKpisZeroFilled ==
    (KpisDone /\ table.n = 0) =>
        /\ DOMAIN kpis = KpiKeys
        /\ \A key \in DOMAIN kpis : kpis[key] = 0

\* The KPIs of a table without orders have been computed, and so have those
\* of a table with orders and the same keys.
C21_Witness ==
    /\ pc = "kpis"
    /\ table.n = 0
    /\ kpis.nb_commandes = 0
    /\ Cardinality(KpiKeys) = 9

\* Both dates of row i of the returned dataset are known.
BothDates(i) ==
    /\ HasCol(result.validated, "date_promised")
    /\ HasCol(result.validated, "date_delivered")
    /\ result.validated.col["date_promised"][i].k = "ts"
    /\ result.validated.col["date_delivered"][i].k = "ts"

\* max(0, whole days from date_promised to date_delivered) of row i.
DaysLate(i) ==
    Num(Max0(result.validated.col["date_delivered"][i].v
             - result.validated.col["date_promised"][i].v) * Scale)

Suggested == mode = "analyzed" /\ pc = "mapped" /\ pass = 1

\* The first category, in the order of patterns_to_check, that has a pattern
\* found in the column name.
FirstCategory(name) ==
    LET j == CHOOSE k \in DOMAIN patterns_to_check :
                 /\ patterns_to_check[k].role \in NameMatches(name)
                 /\ \A l \in 1..(k - 1) : patterns_to_check[l].role \notin NameMatches(name)
    IN  patterns_to_check[j]

\* C23: a column whose name matches more than one category is given the role
\* of the first of them in the fixed order, and the compatibility of its
\* detected type with that role only sets the confidence, 0.9 or 0.6.
C23_FirstCategoryWins ==
    Suggested =>
        \A i \in DOMAIN mappings :
            LET name == mappings[i].source_column
            IN  Cardinality(NameMatches(name)) > 1 =>
                    /\ mappings[i].target_role = FirstCategory(name).role
                    /\ mappings[i].confidence =
                          IF detect_column_type(raw.col[name]) \in FirstCategory(name).types
                          THEN 9 ELSE 6

\* The formats that parse at least 80% of the non-null values of a column.
FormatsReaching(s) ==
    {j \in DOMAIN DATE_FORMATS :
        Count(Map(s, LAMBDA c : parse_with(DATE_FORMATS[j], c)), notna) * 10
            >= Count(s, notna) * 8}

\* The column parsed by the first format that reaches 80%, or by the
\* permissive parser when none does.
FirstFormatOrFallback(s) ==
    IF FormatsReaching(s) = {} THEN Map(s, parse_any)
    ELSE LET j == CHOOSE k \in FormatsReaching(s) : \A l \in FormatsReaching(s) : k <= l
         IN  Map(s, LAMBDA c : parse_with(DATE_FORMATS[j], c))

\* C24: a mapped date column is returned as parsed by the first format, in
\* the order of DATE_FORMATS, that parses at least 80% of its non-null
\* values, and as parsed by the permissive parser when no format does.
C24_FirstFormatOrFallback ==
    (HasDataset /\ pass = 1 /\ mode = "approved") =>
        \A src \in SourcesOf("date_promised") :
            result.validated.col["date_promised"] = FirstFormatOrFallback(raw.col[src])

\* The returned dataset has a date_promised that no mapping supplied.
DatesSynthesized ==
    HasCol(result.validated, "date_promised") /\ SourcesOf("date_promised") = {}

\* C25: normalize makes up date values only for a defects_only target case
\* with neither date mapped, and a mapped date_delivered column is returned
\* with its own dates, never with order_date or the current time.
C25_DatesSynthesizedOnlyForDefectsOnly ==
    (HasDataset /\ pass = 1 /\ mode = "approved") =>
        /\ DatesSynthesized =>
              /\ target_case = "defects_only"
              /\ SourcesOf("date_delivered") = {}
        /\ \A src \in SourcesOf("date_delivered") : \A i \in 1..raw.n :
              result.validated.col["date_delivered"][i]
                  = IF isna(raw.col[src][i]) THEN NaN ELSE Ts(raw.col[src][i].v)

\* The rows of a raw supplier column whose name is null or blank.
MissingNames(s) == Count(s, LAMBDA c : isna(c) \/ c = Txt(""))

\* C26: the returned dataset has every row of the file, and when k > 0 rows
\* have a null or blank supplier the warnings hold a warning-severity entry
\* on column supplier with row_count k, success being false only when an
\* error-severity entry says why.
C26_MissingSuppliersReported ==
    (HasDataset /\ pass = 1 /\ mode = "approved") =>
        \A src \in SourcesOf("supplier") :
            /\ result.dataframe.n = raw.n
            /\ MissingNames(raw.col[src]) > 0 =>
                  /\ \E i \in DOMAIN result.warnings :
                        /\ result.warnings[i].severity = "warning"
                        /\ result.warnings[i].column = "supplier"
                        /\ result.warnings[i].row_count = MissingNames(raw.col[src])
                  /\ result.success
                        \/ \E i \in DOMAIN result.warnings : result.warnings[i].severity = "error"

\* The known dates of a supplier in a date column of the table.
KnownDates(supplier, c) ==
    {table.col[c][i].v :
        i \in {j \in 1..table.n : table.col["supplier"][j] = supplier /\ notna(table.col[c][j])}}

Latest(days) == CHOOSE d \in days : \A e \in days : e <= d

\* C27: derniere_commande is the latest date_delivered of the supplier when
\* it has one, else its latest date_promised when it has one, else N/A;
\* jours_depuis_derniere is -1 exactly when derniere_commande is N/A and is
\* otherwise the number of days from the reported date to now.
C27_LastOrderAndDaysSince ==
    RisksDone =>
        \A k \in DOMAIN risques :
            LET delivered == KnownDates(risques[k].supplier, "date_delivered")
                promised == KnownDates(risques[k].supplier, "date_promised")
            IN  /\ risques[k].derniere_commande =
                      IF delivered # {} THEN DateStr("%Y-%m-%d", Latest(delivered))
                      ELSE IF promised # {} THEN DateStr("%Y-%m-%d", Latest(promised))
                      ELSE NA
                /\ (risques[k].jours_depuis_derniere = -1) <=> (risques[k].derniere_commande = NA)
                /\ risques[k].derniere_commande # NA =>
                      risques[k].jours_depuis_derniere = now - risques[k].derniere_commande.v

\* No upload is being served.
Quiet == mode = "workspace" /\ InFlight = {}

\* C28: once two uploads to the same workspace have both completed, however
\* their steps were interleaved, the workspace has at most one active dataset.
C28_AtMostOneActive ==
    Quiet => \A w \in Workspaces : Cardinality(active_datasets(datasets, w)) <= 1

\* The dataset of a workspace that was committed last.
LatestOf(ds, w) ==
    CHOOSE i \in rows_of_workspace(ds, w) : \A j \in rows_of_workspace(ds, w) : j <= i

\* C29: with uploads served one at a time, a workspace that has datasets has
\* exactly one active dataset, the one of its most recent upload, which is
\* what get_workspace_dataframe finds; and a dataset changes its is_active
\* only in the commit of an upload to its own workspace.
C29_LatestUploadIsActive ==
    [][/\ \A w \in Workspaces :
             rows_of_workspace(datasets', w) # {} =>
                 active_datasets(datasets', w) = {LatestOf(datasets', w)}
       /\ \A i \in DOMAIN datasets :
             datasets'[i].is_active # datasets[i].is_active =>
                 \E r \in Requests :
                     /\ requests[r].pc = "added"
                     /\ requests'[r].pc = "done"
                     /\ requests[r].workspace_id = datasets[i].workspace_id]_vars

\* C29 witness: W1 has had two uploads and W2 one; the second dataset of W1
\* and the dataset of W2 are the active ones.
C29_Witness ==
    /\ Quiet
    /\ datasets = << [new_dataset("W1") EXCEPT !.is_active = FALSE],
                     new_dataset("W2"), new_dataset("W1") >>

\* C30: the step of apply_llm_mappings that follows a normalization result
\* with success = false ends the request and changes no dataset and no
\* workspace: nothing is deactivated, nothing is created, data_type stays.
C30_FailedApplyChangesNothing ==
    [][\A r \in Requests :
          (/\ requests[r].route = "apply_llm_mappings"
           /\ requests[r].pc = "validated"
           /\ ~requests[r].success
           /\ requests'[r] # requests[r]) =>
              /\ datasets' = datasets
              /\ data_type' = data_type
              /\ requests'[r].pc = "rejected"
              /\ requests'[r].written = {}]_vars

\* C30 witness: apply_llm_mappings has answered success = false for a
\* workspace that has an active dataset and whose data_type is not the one
\* of the target case asked for.
C30_Witness ==
    \E r \in Requests :
        /\ requests[r].pc = "rejected"
        /\ requests[r].route = "apply_llm_mappings"
        /\ active_datasets(datasets, requests[r].workspace_id) # {}
        /\ case_mapping(requests[r].target_case, data_type[requests[r].workspace_id])
              # data_type[requests[r].workspace_id]

====
